---------------------------- MODULE Spec2Model ----------------------------
(***************************************************************************)
(* Model of whitespace_format.py: the single-pass formatting engine        *)
(* format_file_content and the marker / whitespace classifiers it uses.    *)
(*                                                                         *)
(* A text is a sequence of characters; a character is a one-symbol string. *)
(* The control characters are named ("LF" for '\n', "CR" for '\r', ...).   *)
(* Python indices are 0-based and are kept 0-based in the state; the       *)
(* character at Python index k of text t is t[k + 1].                      *)
(***************************************************************************)
EXTENDS Integers, Sequences, FiniteSets, TLC

\* ----------------------------------------------------------------------
\* Bounds of the model
\* ----------------------------------------------------------------------

\* Longest input text drawn by Init.
MaxLen == 3

\* Longest input text of the marker specification (a smaller alphabet).
MaxMarkerLen == 5

\* Longest whitespace-only text of the file-policy specification.
MaxPolicyLen == 2

\* Number of successive formatting runs on the same text (the second run
\* formats the text returned by the first).
MaxRuns == 2

\* ----------------------------------------------------------------------
\* Characters and tables (whitespace_format.py lines 30-51)
\* ----------------------------------------------------------------------

CARRIAGE_RETURN == "CR"
LINE_FEED == "LF"
SPACE == "SP"
TAB == "TAB"
VERTICAL_TAB == "VT"
FORM_FEED == "FF"

WHITESPACE_CHARACTERS ==
    {CARRIAGE_RETURN, LINE_FEED, SPACE, TAB, VERTICAL_TAB, FORM_FEED}

NEW_LINE_MARKERS ==
    [windows |-> <<CARRIAGE_RETURN, LINE_FEED>>,
     linux   |-> <<LINE_FEED>>,
     mac     |-> <<CARRIAGE_RETURN>>]

\* The empty string.
EmptyText == << >>

\* Python slice text[:k].
Prefix(text, k) ==
    SubSeq(text, 1, IF k < Len(text) THEN k ELSE Len(text))

\* Python max(a, b).
Max(a, b) == IF a > b THEN a ELSE b

\* Python SPACE * n.
RECURSIVE Repeat(_, _)
Repeat(char, n) == IF n <= 0 THEN << >> ELSE <<char>> \o Repeat(char, n - 1)

\* Variant of Change that leaves changed_from and changed_to at their
\* defaults.
Change_WithoutTexts(change_type, line_number, changed_from, changed_to) ==
    [change_type |-> change_type,
     line_number |-> line_number,
     changed_from |-> << >>,
     changed_to |-> << >>]

\* dataclass Change: changed_from and changed_to default to "".
Change(change_type, line_number, changed_from, changed_to) ==
    [change_type |-> change_type,
     line_number |-> line_number,
     changed_from |-> changed_from,
     changed_to |-> changed_to]

\* ----------------------------------------------------------------------
\* Classifiers
\* ----------------------------------------------------------------------

is_whitespace_only(text) ==
    \A k \in 1..Len(text) : text[k] \in WHITESPACE_CHARACTERS

\* The counting loop of find_most_common_new_line_marker, from index i on,
\* with the three counters in the record c.
RECURSIVE CountNewLineMarkers(_, _, _)
CountNewLineMarkers(text, i, c) ==
    IF ~(i < Len(text)) THEN c
    ELSE IF text[i + 1] = CARRIAGE_RETURN
         THEN IF i < Len(text) - 1 /\ text[i + 2] = LINE_FEED
              THEN CountNewLineMarkers(text, i + 2,
                       [c EXCEPT !.windows_count = @ + 1])
              ELSE CountNewLineMarkers(text, i + 1,
                       [c EXCEPT !.mac_count = @ + 1])
         ELSE IF text[i + 1] = LINE_FEED
              THEN CountNewLineMarkers(text, i + 1,
                       [c EXCEPT !.linux_count = @ + 1])
              ELSE CountNewLineMarkers(text, i + 1, c)

\* Variant of MostCommonOf that lets Mac win a tie with Windows.
MostCommonOf_MacWinsTie(c) ==
    IF c.mac_count >= c.windows_count /\ c.mac_count > c.linux_count
    THEN <<CARRIAGE_RETURN>>
    ELSE IF c.windows_count > c.linux_count
         THEN <<CARRIAGE_RETURN, LINE_FEED>>
         ELSE <<LINE_FEED>>

\* The selection at the end of find_most_common_new_line_marker.
MostCommonOf(c) ==
    IF c.mac_count > c.windows_count /\ c.mac_count > c.linux_count
    THEN <<CARRIAGE_RETURN>>
    ELSE IF c.windows_count > c.linux_count
         THEN <<CARRIAGE_RETURN, LINE_FEED>>
         ELSE <<LINE_FEED>>

find_most_common_new_line_marker(text) ==
    MostCommonOf(CountNewLineMarkers(text, 0,
        [linux_count |-> 0, mac_count |-> 0, windows_count |-> 0]))

\* Variant of TargetMarker that guesses the marker from the text whatever
\* the option says.
TargetMarker_AlwaysGuessed(text, args) ==
    find_most_common_new_line_marker(text)

\* Variant of TargetMarker that takes "\n" whenever the option names a
\* marker.
TargetMarker_NamedIsLineFeed(text, args) ==
    IF args.new_line_marker \in DOMAIN NEW_LINE_MARKERS
    THEN <<LINE_FEED>>
    ELSE find_most_common_new_line_marker(text)

\* NEW_LINE_MARKERS.get(new_line_marker, find_most_common_new_line_marker(..))
TargetMarker(text, args) ==
    IF args.new_line_marker \in DOMAIN NEW_LINE_MARKERS
    THEN NEW_LINE_MARKERS[args.new_line_marker]
    ELSE find_most_common_new_line_marker(text)

\* ----------------------------------------------------------------------
\* State
\* ----------------------------------------------------------------------

VARIABLES
    file_content,       \* the text given to format_file_content
    parsed_arguments,   \* the options (argparse.Namespace)
    run,                \* number of the current formatting run, from 1
    pc,                 \* position inside format_file_content
    output_new_line_marker,
    i,
    changes,
    line_number,
    last_end_of_line_including_eol_marker,
    last_non_whitespace,
    last_end_of_non_empty_line_excluding_eol_marker,
    last_end_of_non_empty_line_including_eol_marker,
    last_non_empty_line_number,
    output,
    files,              \* the file system: the file of each name
    accessible,         \* whether each directory can be listed and entered
    file_names,         \* the list made by find_files_to_process
    file_name,          \* position in file_names of the file being processed
    num_changed_files,
    exit_status         \* the exit status of the process

locals == <<i, changes, line_number, last_end_of_line_including_eol_marker,
            last_non_whitespace,
            last_end_of_non_empty_line_excluding_eol_marker,
            last_end_of_non_empty_line_including_eol_marker,
            last_non_empty_line_number, output>>

\* The state of reformat_files and of the process around it.
batch == <<files, accessible, file_names, file_name, num_changed_files,
           exit_status>>

vars == <<file_content, parsed_arguments, run, pc, output_new_line_marker,
          locals, batch>>

\* ----------------------------------------------------------------------
\* Inputs
\* ----------------------------------------------------------------------

\* Characters of the generated input texts: one ordinary character and one
\* of each kind of whitespace the scan distinguishes.
Alphabet == {"a", SPACE, TAB, LINE_FEED, CARRIAGE_RETURN, VERTICAL_TAB}

\* The texts of at most n characters over an alphabet.
TextsOver(alphabet, n) == UNION {[1..k -> alphabet] : k \in 0..n}

Texts(n) == TextsOver(Alphabet, n)

\* Values of --replace-tabs-with-spaces: negative, zero, positive.
TabWidths == {-1, 0, 2}

\* Every options value the command line can give (parse_command_line,
\* the choices= lists), with add / remove marker at end of file free.
AllArguments ==
    [new_line_marker : {"auto", "linux", "mac", "windows"},
     normalize_new_line_markers : BOOLEAN,
     normalize_empty_files : {"ignore", "empty", "one-line"},
     normalize_whitespace_only_files : {"ignore", "empty", "one-line"},
     remove_trailing_whitespace : BOOLEAN,
     remove_trailing_empty_lines : BOOLEAN,
     add_new_line_marker_at_end_of_file : BOOLEAN,
     remove_new_line_marker_from_end_of_file : BOOLEAN,
     normalize_non_standard_whitespace : {"ignore", "remove", "replace"},
     replace_tabs_with_spaces : TabWidths]

\* group2 of parse_command_line is a mutually exclusive group.
MutuallyExclusive(args) ==
    ~(args.add_new_line_marker_at_end_of_file
      /\ args.remove_new_line_marker_from_end_of_file)

\* The state of the locals before format_file_content has assigned them.
LocalsUnset ==
    /\ output_new_line_marker = EmptyText
    /\ i = 0
    /\ changes = << >>
    /\ line_number = 1
    /\ last_end_of_line_including_eol_marker = 0
    /\ last_non_whitespace = 0
    /\ last_end_of_non_empty_line_excluding_eol_marker = 0
    /\ last_end_of_non_empty_line_including_eol_marker = 0
    /\ last_non_empty_line_number = 0
    /\ output = EmptyText

\* format_file_content is called on a text directly: there is no batch.
NoBatch ==
    /\ files = << >>
    /\ accessible = << >>
    /\ file_names = << >>
    /\ file_name = 0
    /\ num_changed_files = 0
    /\ exit_status = 0

InitWith(texts, arguments) ==
    /\ file_content \in texts
    /\ parsed_arguments \in arguments
    /\ run = 1
    /\ pc = "start"
    /\ LocalsUnset
    /\ NoBatch

\* ----------------------------------------------------------------------
\* format_file_content
\* ----------------------------------------------------------------------

\* The value standing for "no return yet".
NoReturn == << >>

\* Variant of EmptyFileResult in which "empty" does not return, so that
\* the empty text goes on to the whitespace-only policy.
EmptyFileResult_EmptyFallsThrough(args, marker) ==
    IF args.normalize_empty_files = "ignore"
    THEN <<EmptyText, << >> >>
    ELSE IF args.normalize_empty_files = "one-line"
    THEN <<marker,
           <<Change("REPLACED_EMPTY_FILE_WITH_ONE_LINE", 1,
                    EmptyText, EmptyText)>> >>
    ELSE NoReturn

\* Lines 317-322: what format_file_content returns for the empty text, as
\* <<text, changes>>.
EmptyFileResult(args, marker) ==
    IF args.normalize_empty_files \in {"ignore", "empty"}
    THEN <<EmptyText, << >> >>
    ELSE IF args.normalize_empty_files = "one-line"
    THEN <<marker,
           <<Change("REPLACED_EMPTY_FILE_WITH_ONE_LINE", 1,
                    EmptyText, EmptyText)>> >>
    ELSE NoReturn

\* Variant of WhitespaceOnlyFileResult without the test of line 329: a
\* text that already is the target marker is reported as replaced.
WhitespaceOnlyFileResult_NoEqualTest(text, args, marker) ==
    IF args.normalize_whitespace_only_files = "empty"
    THEN <<EmptyText,
           <<Change("REPLACED_WHITESPACE_ONLY_FILE_WITH_EMPTY_FILE", 1,
                    EmptyText, EmptyText)>> >>
    ELSE IF args.normalize_whitespace_only_files = "one-line"
    THEN <<marker,
           <<Change("REPLACED_WHITESPACE_ONLY_FILE_WITH_ONE_LINE", 1,
                    EmptyText, EmptyText)>> >>
    ELSE IF args.normalize_whitespace_only_files = "ignore"
    THEN <<text, << >> >>
    ELSE NoReturn

\* Variant of WhitespaceOnlyFileResult in which "ignore" does not return,
\* so that a whitespace-only text goes on to the scan.
WhitespaceOnlyFileResult_IgnoreFallsThrough(text, args, marker) ==
    IF args.normalize_whitespace_only_files = "empty"
    THEN <<EmptyText,
           <<Change("REPLACED_WHITESPACE_ONLY_FILE_WITH_EMPTY_FILE", 1,
                    EmptyText, EmptyText)>> >>
    ELSE IF args.normalize_whitespace_only_files = "one-line"
    THEN IF text = marker
         THEN <<text, << >> >>
         ELSE <<marker,
                <<Change("REPLACED_WHITESPACE_ONLY_FILE_WITH_ONE_LINE", 1,
                         EmptyText, EmptyText)>> >>
    ELSE NoReturn

\* Lines 324-335: what format_file_content returns for a whitespace-only
\* text, as <<text, changes>>.
WhitespaceOnlyFileResult(text, args, marker) ==
    IF args.normalize_whitespace_only_files = "empty"
    THEN <<EmptyText,
           <<Change("REPLACED_WHITESPACE_ONLY_FILE_WITH_EMPTY_FILE", 1,
                    EmptyText, EmptyText)>> >>
    ELSE IF args.normalize_whitespace_only_files = "one-line"
    THEN IF text = marker
         THEN <<text, << >> >>
         ELSE <<marker,
                <<Change("REPLACED_WHITESPACE_ONLY_FILE_WITH_ONE_LINE", 1,
                         EmptyText, EmptyText)>> >>
    ELSE IF args.normalize_whitespace_only_files = "ignore"
    THEN <<text, << >> >>
    ELSE NoReturn

\* Lines 317-335: the early returns, in the order the code tries them.
EarlyReturn(text, args, marker) ==
    IF text = EmptyText /\ EmptyFileResult(args, marker) # NoReturn
    THEN EmptyFileResult(args, marker)
    ELSE IF is_whitespace_only(text)
    THEN WhitespaceOnlyFileResult(text, args, marker)
    ELSE NoReturn

\* Lines 312-365: the target marker, the two early returns (empty file,
\* whitespace-only file) and the initial values of the locals.
Begin ==
    /\ pc = "start"
    /\ LET marker == TargetMarker(file_content, parsed_arguments)
           early == EarlyReturn(file_content, parsed_arguments, marker)
       IN /\ output_new_line_marker' = marker
          /\ IF early # NoReturn
             THEN /\ output' = early[1]
                  /\ changes' = early[2]
                  /\ pc' = "done"
             ELSE /\ output' = EmptyText
                  /\ changes' = << >>
                  /\ pc' = IF 0 < Len(file_content)
                           THEN "scan" ELSE "final_whitespace"
    /\ i' = 0
    /\ line_number' = 1
    /\ last_end_of_line_including_eol_marker' = 0
    /\ last_non_whitespace' = 0
    /\ last_end_of_non_empty_line_excluding_eol_marker' = 0
    /\ last_end_of_non_empty_line_including_eol_marker' = 0
    /\ last_non_empty_line_number' = 0
    /\ UNCHANGED batch
    /\ UNCHANGED <<file_content, parsed_arguments, run>>

\* Variant of ParseNewLineMarker that never looks at the next character,
\* so that "\r\n" is read as two markers.
ParseNewLineMarker_NoLookahead(text, index) ==
    IF text[index + 1] = LINE_FEED THEN <<LINE_FEED>>
    ELSE <<CARRIAGE_RETURN>>

\* Variant of ParseNewLineMarker that takes every "\r" for the first
\* character of "\r\n", whatever follows it.
ParseNewLineMarker_AlwaysTwoCharacters(text, index) ==
    IF text[index + 1] = LINE_FEED THEN <<LINE_FEED>>
    ELSE <<CARRIAGE_RETURN, LINE_FEED>>

\* Lines 370-379: the end-of-line marker that starts at the given index of
\* text.
ParseNewLineMarker(text, index) ==
    IF text[index + 1] = LINE_FEED THEN <<LINE_FEED>>
    ELSE IF index < Len(text) - 1 /\ text[index + 2] = LINE_FEED
    THEN <<CARRIAGE_RETURN, LINE_FEED>>
    ELSE <<CARRIAGE_RETURN>>

\* Variant of LastNonWhitespaceOnCurrentLine without the max(): the cut
\* may fall before the beginning of the current line.
LastNonWhitespaceOnCurrentLine_NoMax(last_non_ws, last_end_of_line) ==
    last_non_ws

\* Lines 384-387: just after the last non-whitespace character of the
\* current line, or the beginning of the line when it has none.
LastNonWhitespaceOnCurrentLine(last_non_ws, last_end_of_line) ==
    Max(last_non_ws, last_end_of_line)

\* Variant of ReplacesNewLineMarker that takes a marker equal to the
\* target for a replacement too.
ReplacesNewLineMarker_AlsoTheTarget(args, target, new_line_marker) ==
    args.normalize_new_line_markers

\* Lines 410-424: the marker written for the marker read, and whether that
\* is a replacement.
ReplacesNewLineMarker(args, target, new_line_marker) ==
    args.normalize_new_line_markers /\ target # new_line_marker

\* Variant of NonStandardWhitespace that forgets the vertical tab, which
\* then takes the branch of the ordinary characters.
NonStandardWhitespace_NoVerticalTab == {FORM_FEED}

\* Line 453: the characters handled by normalize_non_standard_whitespace.
NonStandardWhitespace == {VERTICAL_TAB, FORM_FEED}

\* Variant of SpacesForTab that writes a single space whatever the width.
SpacesForTab_OneSpace(args) == <<SPACE>>

\* Line 448: the spaces written for a tab.
SpacesForTab(args) == Repeat(SPACE, args.replace_tabs_with_spaces)

\* Variant of LastLineCut that cuts one character too many.
LastLineCut_OneTooMany(last_non_ws) == Max(last_non_ws - 1, 0)

\* Lines 485 and 488: where the text is cut when the last line has
\* trailing whitespace.
LastLineCut(last_non_ws) == last_non_ws

\* Variant of IsEmptyLine for which no line is empty.
IsEmptyLine_Never(last_end_of_line, text) == FALSE

\* Line 403: the line that ends here is empty when the text written so
\* far, trailing whitespace already removed, stops at the end of the
\* previous line.
IsEmptyLine(last_end_of_line, text) == last_end_of_line = Len(text)

\* Lines 367-479: one iteration of the scan loop, on the character at
\* index i (and the one after it for a "\r\n" marker).
\* Lines 453-473: a vertical tab or a form feed under a value of
\* normalize_non_standard_whitespace that is none of "ignore", "replace"
\* and "remove" raises ValueError. parse_command_line admits the three
\* values only (choices=, line 808).
RaisesValueError(char, args) ==
    /\ char \in NonStandardWhitespace
    /\ args.normalize_non_standard_whitespace
          \notin {"ignore", "replace", "remove"}

ScanStep ==
    /\ pc = "scan"
    /\ i < Len(file_content)
    /\ IF RaisesValueError(file_content[i + 1], parsed_arguments)
       THEN \* Lines 472-473: the exception leaves format_file_content.
            /\ pc' = "raised"
            /\ UNCHANGED locals
       ELSE /\ LET char == file_content[i + 1]
                   args == parsed_arguments
               IN
               IF char \in {CARRIAGE_RETURN, LINE_FEED}
               THEN \* Lines 368-438: an end-of-line marker.
                    LET new_line_marker == ParseNewLineMarker(file_content, i)
                        \* Line 377: skip the extra character of "\r\n".
                        i1 == IF Len(new_line_marker) = 2 THEN i + 1 ELSE i
                        last_non_whitespace_on_current_line ==
                            LastNonWhitespaceOnCurrentLine(
                                last_non_whitespace,
                                last_end_of_line_including_eol_marker)
                        remove ==
                            /\ args.remove_trailing_whitespace
                            /\ last_non_whitespace_on_current_line < Len(output)
                        changes1 ==
                            IF remove
                            THEN Append(changes,
                                        Change("REMOVED_TRAILING_WHITESPACE",
                                               line_number, EmptyText, EmptyText))
                            ELSE changes
                        output1 ==
                            IF remove
                            THEN Prefix(output, last_non_whitespace_on_current_line)
                            ELSE output
                        is_empty_line ==
                            IsEmptyLine(last_end_of_line_including_eol_marker,
                                        output1)
                        last_end_of_line_excluding_eol_marker == Len(output1)
                        replace ==
                            ReplacesNewLineMarker(args, output_new_line_marker,
                                                  new_line_marker)
                        changes2 ==
                            IF replace
                            THEN Append(changes1,
                                        Change("REPLACED_NEW_LINE_MARKER",
                                               line_number, new_line_marker,
                                               output_new_line_marker))
                            ELSE changes1
                        output2 ==
                            IF replace
                            THEN output1 \o output_new_line_marker
                            ELSE output1 \o new_line_marker
                    IN /\ changes' = changes2
                       /\ output' = output2
                       /\ last_end_of_line_including_eol_marker' = Len(output2)
                       /\ IF ~is_empty_line
                          THEN /\ last_end_of_non_empty_line_excluding_eol_marker' =
                                      last_end_of_line_excluding_eol_marker
                               /\ last_end_of_non_empty_line_including_eol_marker' =
                                      Len(output2)
                               /\ last_non_empty_line_number' = line_number
                          ELSE UNCHANGED
                                 <<last_end_of_non_empty_line_excluding_eol_marker,
                                   last_end_of_non_empty_line_including_eol_marker,
                                   last_non_empty_line_number>>
                       /\ line_number' = line_number + 1
                       /\ i' = i1 + 1
                       /\ UNCHANGED last_non_whitespace
               ELSE
                    /\ IF char = SPACE
                       THEN \* Lines 440-441.
                            /\ output' = Append(output, char)
                            /\ UNCHANGED <<changes, last_non_whitespace>>
                       ELSE IF char = TAB
                       THEN \* Lines 443-451.
                            IF args.replace_tabs_with_spaces < 0
                            THEN /\ output' = Append(output, char)
                                 /\ UNCHANGED <<changes, last_non_whitespace>>
                            ELSE IF args.replace_tabs_with_spaces > 0
                            THEN /\ changes' =
                                      Append(changes,
                                             Change("REPLACED_TAB_WITH_SPACES",
                                                    line_number, EmptyText, EmptyText))
                                 /\ output' = output \o SpacesForTab(args)
                                 /\ UNCHANGED last_non_whitespace
                            ELSE /\ changes' =
                                      Append(changes,
                                             Change("REMOVED_TAB", line_number,
                                                    EmptyText, EmptyText))
                                 /\ UNCHANGED <<output, last_non_whitespace>>
                       ELSE IF char \in NonStandardWhitespace
                       THEN \* Lines 453-473.
                            IF args.normalize_non_standard_whitespace = "ignore"
                            THEN /\ output' = Append(output, char)
                                 /\ UNCHANGED <<changes, last_non_whitespace>>
                            ELSE IF args.normalize_non_standard_whitespace = "replace"
                            THEN /\ output' = Append(output, SPACE)
                                 /\ changes' =
                                      Append(changes,
                                             Change("REPLACED_NONSTANDARD_WHITESPACE",
                                                    line_number, <<char>>, <<SPACE>>))
                                 /\ UNCHANGED last_non_whitespace
                            ELSE \* "remove"; any other value raises, above.
                                 /\ changes' =
                                      Append(changes,
                                             Change("REMOVED_NONSTANDARD_WHITESPACE",
                                                    line_number, <<char>>, EmptyText))
                                 /\ UNCHANGED <<output, last_non_whitespace>>
                       ELSE \* Lines 474-476: any other character.
                            /\ output' = Append(output, char)
                            /\ last_non_whitespace' = Len(output) + 1
                            /\ UNCHANGED changes
                    /\ i' = i + 1
                    /\ UNCHANGED <<line_number,
                                   last_end_of_line_including_eol_marker,
                                   last_end_of_non_empty_line_excluding_eol_marker,
                                   last_end_of_non_empty_line_including_eol_marker,
                                   last_non_empty_line_number>>
            /\ pc' = IF i' < Len(file_content) THEN "scan" ELSE "final_whitespace"
    /\ UNCHANGED batch
    /\ UNCHANGED <<file_content, parsed_arguments, run,
                   output_new_line_marker>>

\* Variant of StepAfter in which the marker is added at the end of the file
\* before the trailing empty lines are removed.
StepAfter_AddMarkerFirst(step) ==
    CASE step = "final_whitespace" -> "final_add_marker"
      [] step = "final_add_marker" -> "final_empty_lines"
      [] step = "final_empty_lines" -> "final_remove_marker"
      [] step = "final_remove_marker" -> "done"

\* Lines 481-521: the order of the statements after the scan loop.
StepAfter(step) ==
    CASE step = "final_whitespace" -> "final_empty_lines"
      [] step = "final_empty_lines" -> "final_add_marker"
      [] step = "final_add_marker" -> "final_remove_marker"
      [] step = "final_remove_marker" -> "done"

\* Lines 481-488: remove trailing whitespace from the last line.
RemoveTrailingWhitespaceFromLastLine ==
    /\ pc = "final_whitespace"
    /\ IF /\ parsed_arguments.remove_trailing_whitespace
          /\ last_end_of_line_including_eol_marker < Len(output)
          /\ LastLineCut(last_non_whitespace) < Len(output)
       THEN /\ changes' =
                 Append(changes,
                        Change("REMOVED_TRAILING_WHITESPACE", line_number,
                               EmptyText, EmptyText))
            /\ output' =
                 Prefix(output, LastLineCut(last_non_whitespace))
       ELSE UNCHANGED <<changes, output>>
    /\ pc' = StepAfter(pc)
    /\ UNCHANGED batch
    /\ UNCHANGED <<file_content, parsed_arguments, run,
                   output_new_line_marker, i, line_number,
                   last_end_of_line_including_eol_marker,
                   last_non_whitespace,
                   last_end_of_non_empty_line_excluding_eol_marker,
                   last_end_of_non_empty_line_including_eol_marker,
                   last_non_empty_line_number>>

\* Lines 490-499: remove trailing empty lines.
RemoveTrailingEmptyLines ==
    /\ pc = "final_empty_lines"
    /\ IF /\ parsed_arguments.remove_trailing_empty_lines
          /\ last_end_of_line_including_eol_marker = Len(output)
          /\ last_end_of_non_empty_line_including_eol_marker < Len(output)
       THEN /\ line_number' = last_non_empty_line_number + 1
            /\ last_end_of_line_including_eol_marker' =
                 last_end_of_non_empty_line_including_eol_marker
            /\ changes' =
                 Append(changes,
                        Change("REMOVED_EMPTY_LINES",
                               last_non_empty_line_number + 1,
                               EmptyText, EmptyText))
            /\ output' =
                 Prefix(output,
                        last_end_of_non_empty_line_including_eol_marker)
       ELSE UNCHANGED <<line_number, last_end_of_line_including_eol_marker,
                        changes, output>>
    /\ pc' = StepAfter(pc)
    /\ UNCHANGED batch
    /\ UNCHANGED <<file_content, parsed_arguments, run,
                   output_new_line_marker, i, last_non_whitespace,
                   last_end_of_non_empty_line_excluding_eol_marker,
                   last_end_of_non_empty_line_including_eol_marker,
                   last_non_empty_line_number>>

\* Lines 501-509: add a new line marker at the end of the file.
AddNewLineMarkerAtEndOfFile ==
    /\ pc = "final_add_marker"
    /\ IF /\ parsed_arguments.add_new_line_marker_at_end_of_file
          /\ last_end_of_line_including_eol_marker < Len(output)
       THEN /\ changes' =
                 Append(changes,
                        Change("ADDED_NEW_LINE_MARKER_TO_END_OF_FILE",
                               line_number, EmptyText, EmptyText))
            /\ output' = output \o output_new_line_marker
            /\ last_end_of_line_including_eol_marker' =
                 Len(output) + Len(output_new_line_marker)
            /\ line_number' = line_number + 1
       ELSE UNCHANGED <<changes, output,
                        last_end_of_line_including_eol_marker, line_number>>
    /\ pc' = StepAfter(pc)
    /\ UNCHANGED batch
    /\ UNCHANGED <<file_content, parsed_arguments, run,
                   output_new_line_marker, i, last_non_whitespace,
                   last_end_of_non_empty_line_excluding_eol_marker,
                   last_end_of_non_empty_line_including_eol_marker,
                   last_non_empty_line_number>>

\* Lines 511-521: remove new line marker(s) from the end of the file, and
\* return (output, changes).
RemoveNewLineMarkerFromEndOfFile ==
    /\ pc = "final_remove_marker"
    /\ IF /\ parsed_arguments.remove_new_line_marker_from_end_of_file
          /\ last_end_of_line_including_eol_marker = Len(output)
          /\ line_number >= 2
       THEN /\ line_number' = last_non_empty_line_number
            /\ changes' =
                 Append(changes,
                        Change("REMOVED_NEW_LINE_MARKER_FROM_END_OF_FILE",
                               last_non_empty_line_number,
                               EmptyText, EmptyText))
            /\ output' =
                 Prefix(output,
                        last_end_of_non_empty_line_excluding_eol_marker)
       ELSE UNCHANGED <<line_number, changes, output>>
    /\ pc' = StepAfter(pc)
    /\ UNCHANGED batch
    /\ UNCHANGED <<file_content, parsed_arguments, run,
                   output_new_line_marker, i,
                   last_end_of_line_including_eol_marker,
                   last_non_whitespace,
                   last_end_of_non_empty_line_excluding_eol_marker,
                   last_end_of_non_empty_line_including_eol_marker,
                   last_non_empty_line_number>>

\* A further run: format_file_content is called, with the same options, on
\* the text the previous call returned.
FormatAgain ==
    /\ pc = "done"
    /\ run < MaxRuns
    /\ file_content' = output
    /\ run' = run + 1
    /\ pc' = "start"
    /\ output_new_line_marker' = EmptyText
    /\ i' = 0
    /\ changes' = << >>
    /\ line_number' = 1
    /\ last_end_of_line_including_eol_marker' = 0
    /\ last_non_whitespace' = 0
    /\ last_end_of_non_empty_line_excluding_eol_marker' = 0
    /\ last_end_of_non_empty_line_including_eol_marker' = 0
    /\ last_non_empty_line_number' = 0
    /\ output' = EmptyText
    /\ UNCHANGED <<parsed_arguments, batch>>

\* One call of format_file_content.
Next ==
    \/ Begin
    \/ ScanStep
    \/ RemoveTrailingWhitespaceFromLastLine
    \/ RemoveTrailingEmptyLines
    \/ AddNewLineMarkerAtEndOfFile
    \/ RemoveNewLineMarkerFromEndOfFile

\* Successive calls, each on the text returned by the one before.
NextAgain ==
    \/ Next
    \/ FormatAgain

\* ----------------------------------------------------------------------
\* main: parse_command_line, find_files_to_process, reformat_files,
\* reformat_file
\* ----------------------------------------------------------------------

\* Variant of MutuallyExclusiveGroup without the group: the two options
\* may be given together.
MutuallyExclusiveGroup_NoGroup(args) == TRUE

\* Lines 762-780: --add-new-line-marker-at-end-of-file and
\* --remove-new-line-marker-from-end-of-file are the members of
\* parser.add_mutually_exclusive_group(); parse_args() accepts at most one
\* of them.
MutuallyExclusiveGroup(args) == MutuallyExclusive(args)

\* Lines 825-830: "Fix command line arguments". The second assignment sets
\* the attribute remove_empty_lines of the namespace.
FixCommandLineArguments(args) ==
    LET fixed ==
            IF args.normalize_whitespace_only_files = "empty"
            THEN [args EXCEPT !.normalize_empty_files =
                                  args.normalize_whitespace_only_files]
            ELSE args
    IN IF fixed.remove_new_line_marker_from_end_of_file
       THEN [remove_empty_lines |-> TRUE] @@ fixed
       ELSE fixed

\* Lines 221-225: die() ends the process with the error code as its exit
\* status.
die(error_code) ==
    /\ pc' = "exit"
    /\ exit_status' = error_code

\* Lines 636-832 and 837: parse_command_line. parse_args() ends the
\* process with status 2 when both options of the group are given.
ParseCommandLine ==
    /\ pc = "command_line"
    /\ IF ~MutuallyExclusiveGroup(parsed_arguments)
       THEN /\ die(2)
            /\ UNCHANGED parsed_arguments
       ELSE /\ parsed_arguments' = FixCommandLineArguments(parsed_arguments)
            /\ pc' = "find_files"
            /\ UNCHANGED exit_status
    /\ UNCHANGED <<files, accessible, file_names, file_name,
                   num_changed_files, file_content, run,
                   output_new_line_marker, locals>>

\* The names of the files, the names of the directories, and the sorted
\* entries of each directory (sorted(iterdir()), line 613).
FileNames == {"d/f1", "f2"}

Directories == {"d"}

Entries == [directory \in Directories |-> <<"d/f1">>]

\* The directories on the way to a path.
Parents(path) ==
    {directory \in Directories :
        \E k \in 1..Len(Entries[directory]) : Entries[directory][k] = path}

\* The value standing for the PermissionError that pathlib raises.
PermissionError == <<"PermissionError">>

\* The lists joined into one; the error, if one of them is the error.
RECURSIVE Flatten(_)
Flatten(lists) ==
    IF lists = << >> THEN << >>
    ELSE LET rest == Flatten(Tail(lists))
         IN IF Head(lists) = PermissionError \/ rest = PermissionError
            THEN PermissionError
            ELSE Head(lists) \o rest

\* Lines 602-617: find_all_files_recursively on a path that is no
\* symbolic link. is_symlink() and is_file() raise PermissionError for a
\* path inside a directory that cannot be entered, and iterdir() for a
\* directory that cannot be listed; a file gives its name, a directory the
\* files found under its entries, any other path nothing.
RECURSIVE find_all_files_recursively(_, _)
find_all_files_recursively(path, access) ==
    IF \E directory \in Parents(path) : ~access[directory]
    THEN PermissionError
    ELSE IF path \in FileNames THEN <<path>>
    ELSE IF path \in Directories
    THEN IF ~access[path] THEN PermissionError
         ELSE Flatten([k \in 1..Len(Entries[path]) |->
                         find_all_files_recursively(Entries[path][k],
                                                    access)])
    ELSE << >>

\* Lines 620-633: find_files_to_process, with --exclude at its default,
\* which matches no path (UNMATCHABLE_REGEX).
find_files_to_process(input_files, access) ==
    Flatten([k \in 1..Len(input_files) |->
                find_all_files_recursively(input_files[k], access)])

\* Line 838: main lists the files. An exception of find_files_to_process
\* is not caught: the interpreter prints the traceback and the process
\* ends with status 1.
FindFilesToProcess ==
    /\ pc = "find_files"
    /\ LET found == find_files_to_process(parsed_arguments.input_files,
                                          accessible)
       IN IF found = PermissionError
          THEN /\ pc' = "exit"
               /\ exit_status' = 1
               /\ UNCHANGED file_names
          ELSE /\ file_names' = found
               /\ pc' = "reformat_files"
               /\ UNCHANGED exit_status
    /\ UNCHANGED <<files, accessible, file_name, num_changed_files,
                   parsed_arguments, file_content, run,
                   output_new_line_marker, locals>>

\* Variant of ReadError in which bytes that cannot be decoded are no error.
ReadError_NoDecodeError(file) ==
    IF ~file.readable THEN 2 ELSE 0

\* Lines 233-239: the error code of read_file_content for a file, 0 when
\* the file can be read and decoded.
ReadError(file) ==
    IF ~file.readable THEN 2
    ELSE IF ~file.decodable THEN 3
    ELSE 0

\* Lines 577-578 and 534: the loop of reformat_files takes the next file
\* and reformat_file reads it; format_file_content is entered with its
\* text.
ReadFileContent ==
    /\ pc = "reformat_files"
    /\ file_name < Len(file_names)
    /\ file_name' = file_name + 1
    /\ LET file == files[file_names[file_name + 1]]
       IN IF ReadError(file) # 0
          THEN /\ die(ReadError(file))
               /\ UNCHANGED file_content
          ELSE /\ file_content' = file.content
               /\ pc' = "start"
               /\ UNCHANGED exit_status
    /\ UNCHANGED <<files, accessible, file_names, num_changed_files,
                   parsed_arguments, run, output_new_line_marker, locals>>

\* Variant of WritesFile that writes in check-only mode too.
WritesFile_AlsoInCheckOnly(args, file_changes) == file_changes # << >>

\* Lines 538 and 553-562: reformat_file calls write_file in the else branch
\* of "if parsed_arguments.check_only", under "if file_changes".
WritesFile(args, file_changes) ==
    ~args.check_only /\ file_changes # << >>

\* Lines 535-570 and 578-580: reformat_file, once format_file_content has
\* returned, writes the file when it has changes and check_only is off
\* (write_file, lines 243-249), and reformat_files counts the file when it
\* has changes. The text written is what a later read of the same file
\* gives: both use the same encoding, and no end-of-line translation takes
\* place.
ReportAndWriteFile ==
    /\ pc = "done"
    /\ LET is_formatted == changes # << >>
           writes == WritesFile(parsed_arguments, changes)
           name == file_names[file_name]
       IN IF writes /\ ~files[name].writable
          THEN /\ die(4)
               /\ UNCHANGED <<files, num_changed_files>>
          ELSE /\ files' = IF writes
                           THEN [files EXCEPT ![name].content = output]
                           ELSE files
               /\ num_changed_files' = IF is_formatted
                                       THEN num_changed_files + 1
                                       ELSE num_changed_files
               /\ pc' = "reformat_files"
               /\ UNCHANGED exit_status
    /\ UNCHANGED <<accessible, file_names, file_name, file_content,
                   parsed_arguments, run, output_new_line_marker, locals>>

\* Variant of NeedFormatting that does not look at check_only.
NeedFormatting_AnyMode(args, count) == count > 0

\* Lines 582 and 590: "if parsed_arguments.check_only" and, inside it,
\* "if num_changed_files > 0".
NeedFormatting(args, count) == args.check_only /\ count > 0

\* Lines 582-599: after the loop, reformat_files dies with status 1 in
\* check-only mode when some file has changes; otherwise main returns and
\* the process ends with the status it has.
FinishBatch ==
    /\ pc = "reformat_files"
    /\ file_name = Len(file_names)
    /\ IF NeedFormatting(parsed_arguments, num_changed_files)
       THEN die(1)
       ELSE /\ pc' = "exit"
            /\ UNCHANGED exit_status
    /\ UNCHANGED <<files, accessible, file_names, file_name,
                   num_changed_files, file_content, parsed_arguments, run,
                   output_new_line_marker, locals>>

\* One run of main.
NextMain ==
    \/ ParseCommandLine
    \/ FindFilesToProcess
    \/ ReadFileContent
    \/ Next
    \/ ReportAndWriteFile
    \/ FinishBatch

\* ----------------------------------------------------------------------
\* Specifications
\* ----------------------------------------------------------------------

\* The returned text and change list, once the call has returned.
Returned == pc = "done"

\* Options as parse_command_line can produce them for the engine, with the
\* two file policies at their defaults.
EngineArguments ==
    {args \in AllArguments :
        /\ MutuallyExclusive(args)
        /\ args.normalize_empty_files = "ignore"
        /\ args.normalize_whitespace_only_files = "ignore"}

Init == InitWith(Texts(MaxLen), EngineArguments)

Spec == Init /\ [][Next]_vars

SpecAgain == Init /\ [][NextAgain]_vars

\* Marker specification: longer texts over the characters that matter to
\* the choice of the target marker, with the options that use the target.
MarkerAlphabet == {"a", LINE_FEED, CARRIAGE_RETURN}

MarkerArguments ==
    {args \in AllArguments :
        /\ ~args.remove_trailing_whitespace
        /\ ~args.remove_trailing_empty_lines
        /\ ~args.remove_new_line_marker_from_end_of_file
        /\ args.normalize_non_standard_whitespace = "ignore"
        /\ args.replace_tabs_with_spaces = -1
        /\ args.normalize_empty_files \in {"ignore", "one-line"}
        /\ args.normalize_whitespace_only_files \in {"ignore", "one-line"}}

InitMarkers ==
    InitWith(TextsOver(MarkerAlphabet, MaxMarkerLen), MarkerArguments)

SpecMarkers == InitMarkers /\ [][Next]_vars

\* Termination specification: format_file_content is sequential code, so
\* a step that can be taken is taken. Texts over the characters that move
\* the index differently, with the options that can act on them.
MaxTotalLen == 3

TotalAlphabet == {"a", CARRIAGE_RETURN, LINE_FEED}

TotalArguments ==
    {args \in EngineArguments :
        /\ args.normalize_non_standard_whitespace = "ignore"
        /\ args.replace_tabs_with_spaces = -1}

InitTotal ==
    InitWith(TextsOver(TotalAlphabet, MaxTotalLen), TotalArguments)

SpecTotal == InitTotal /\ [][Next]_vars /\ WF_vars(Next)

\* Content specification: texts with two different ordinary characters
\* between whitespace that the options delete, with the options that can
\* act on them.
MaxContentLen == 3

ContentAlphabet == {"a", "b", SPACE, TAB, LINE_FEED}

ContentArguments ==
    {args \in EngineArguments :
        args.normalize_non_standard_whitespace = "ignore"}

InitContent ==
    InitWith(TextsOver(ContentAlphabet, MaxContentLen), ContentArguments)

SpecContent == InitContent /\ [][Next]_vars

\* Mixed-marker specification: texts in which a deletable character
\* stands between a "\r" and a "\n", with the markers left as they are.
MaxMixedLen == 4

MixedAlphabet == {"a", TAB, CARRIAGE_RETURN, LINE_FEED}

MixedArguments ==
    {args \in EngineArguments :
        /\ args.new_line_marker = "auto"
        /\ ~args.normalize_new_line_markers
        /\ args.normalize_non_standard_whitespace = "ignore"}

InitMixed ==
    InitWith(TextsOver(MixedAlphabet, MaxMixedLen), MixedArguments)

SpecMixed == InitMixed /\ [][Next]_vars

\* File-policy specification: every options value on the whitespace-only
\* texts (the empty text included), and on one text that is not
\* whitespace-only.
PolicyTexts ==
    TextsOver(WHITESPACE_CHARACTERS, MaxPolicyLen) \cup {<<"a">>}

InitPolicy ==
    InitWith(PolicyTexts, {args \in AllArguments : MutuallyExclusive(args)})

SpecPolicy == InitPolicy /\ [][Next]_vars

\* Scenario specification: the text and the options of
\* test_format_file_content__comprehensive__1, and every prefix of the text.
ScenarioText ==
    <<VERTICAL_TAB, "h", "e", "l", "l", "o", SPACE, SPACE,
      CARRIAGE_RETURN, LINE_FEED,
      FORM_FEED, "w", "o", "r", "l", "d", SPACE, TAB, SPACE, SPACE,
      LINE_FEED, CARRIAGE_RETURN, LINE_FEED, CARRIAGE_RETURN>>

ScenarioArguments ==
    [new_line_marker |-> "linux",
     normalize_new_line_markers |-> TRUE,
     normalize_empty_files |-> "empty",
     normalize_whitespace_only_files |-> "empty",
     remove_trailing_whitespace |-> TRUE,
     remove_trailing_empty_lines |-> TRUE,
     add_new_line_marker_at_end_of_file |-> TRUE,
     remove_new_line_marker_from_end_of_file |-> FALSE,
     normalize_non_standard_whitespace |-> "replace",
     replace_tabs_with_spaces |-> -1]

InitScenario ==
    InitWith({SubSeq(ScenarioText, 1, n) : n \in 0..Len(ScenarioText)},
             {ScenarioArguments})

SpecScenario == InitScenario /\ [][Next]_vars

\* End-of-file specification: texts of plain lines, blank lines and empty
\* lines, with the options that act on the end of the text.
MaxTrailingLen == 4

TrailingAlphabet == {"a", SPACE, LINE_FEED}

TrailingArguments ==
    {args \in EngineArguments :
        /\ args.new_line_marker = "auto"
        /\ ~args.normalize_new_line_markers
        /\ args.normalize_non_standard_whitespace = "ignore"
        /\ args.replace_tabs_with_spaces = -1}

InitTrailing ==
    InitWith(TextsOver(TrailingAlphabet, MaxTrailingLen), TrailingArguments)

SpecTrailing == InitTrailing /\ [][Next]_vars

\* Command-line specification: main, from the command line to the exit of
\* the process, on a list of files.
MaxFiles == 2

\* The paths given on the command line: a file, a directory, a file inside
\* the directory; a path may be given several times.
Paths == Directories \cup FileNames

InputFiles == UNION {[1..n -> Paths] : n \in 1..MaxFiles}

\* The namespace parse_args() builds from the command line, before the
\* check of the mutually exclusive group and before the fix of the
\* arguments: the options that the fix reads or writes vary, the others
\* are at their defaults (with them --follow-symlinks and --exclude).
\* input_files holds at least one path (nargs="+", line 821).
CommandLines ==
    [input_files : InputFiles,
     check_only : BOOLEAN,
     new_line_marker : {"auto"},
     normalize_new_line_markers : {FALSE},
     normalize_empty_files : {"ignore", "empty", "one-line"},
     normalize_whitespace_only_files : {"ignore", "empty", "one-line"},
     remove_trailing_whitespace : {FALSE},
     remove_trailing_empty_lines : BOOLEAN,
     add_new_line_marker_at_end_of_file : BOOLEAN,
     remove_new_line_marker_from_end_of_file : BOOLEAN,
     normalize_non_standard_whitespace : {"ignore"},
     replace_tabs_with_spaces : {-1}]

\* An empty file, a whitespace-only file and a file with trailing empty
\* lines.
FileContents == {EmptyText, <<SPACE>>, <<"a", LINE_FEED, LINE_FEED>>}

\* A file: its text, and whether open() for reading, decoding and open()
\* for writing succeed.
Files ==
    [content : FileContents, readable : {TRUE}, decodable : {TRUE},
     writable : BOOLEAN]
    \cup {[content |-> EmptyText, readable |-> FALSE, decodable |-> TRUE,
           writable |-> TRUE],
          [content |-> EmptyText, readable |-> TRUE, decodable |-> FALSE,
           writable |-> TRUE]}

\* The file system: a file for each name, and whether each directory can
\* be listed and entered (a directory of mode 000 cannot).
FileSystems == [FileNames -> Files]

InitMain ==
    /\ pc = "command_line"
    /\ parsed_arguments \in CommandLines
    /\ files \in FileSystems
    /\ accessible \in [Directories -> BOOLEAN]
    /\ file_names = << >>
    /\ file_name = 0
    /\ num_changed_files = 0
    /\ exit_status = 0
    /\ file_content = EmptyText
    /\ run = 1
    /\ LocalsUnset

SpecMain == InitMain /\ [][NextMain]_vars

\* ----------------------------------------------------------------------
\* Vocabulary of the properties
\* ----------------------------------------------------------------------

\* The whitespace characters that are not part of an end-of-line marker.
BlankCharacters == {SPACE, TAB, VERTICAL_TAB, FORM_FEED}

MarkerCharacters == {CARRIAGE_RETURN, LINE_FEED}

\* The text without the characters of the set.
Without(text, set) == SelectSeq(text, LAMBDA c : c \notin set)

\* sub can be obtained from text by deleting characters.
RECURSIVE IsSubsequence(_, _)
IsSubsequence(sub, text) ==
    IF sub = << >> THEN TRUE
    ELSE IF text = << >> THEN FALSE
    ELSE IF Head(sub) = Head(text)
         THEN IsSubsequence(Tail(sub), Tail(text))
         ELSE IsSubsequence(sub, Tail(text))

EndsWithMarker(text) ==
    Len(text) > 0 /\ text[Len(text)] \in MarkerCharacters

\* No blank character stands just before a marker or at the end of text.
NoTrailingWhitespace(text) ==
    \A k \in 1..Len(text) :
        text[k] \in BlankCharacters =>
            k < Len(text) /\ text[k + 1] \notin MarkerCharacters

HasChange(change_type) ==
    \E k \in 1..Len(changes) : changes[k].change_type = change_type

\* remove_trailing_whitespace is the only enabled transform.
OnlyRemoveTrailingWhitespace(args) ==
    /\ args.remove_trailing_whitespace
    /\ ~args.normalize_new_line_markers
    /\ ~args.remove_trailing_empty_lines
    /\ ~args.add_new_line_marker_at_end_of_file
    /\ ~args.remove_new_line_marker_from_end_of_file
    /\ args.normalize_non_standard_whitespace = "ignore"
    /\ args.replace_tabs_with_spaces < 0

\* The text reduced to the characters of the set.
Only(text, set) == SelectSeq(text, LAMBDA c : c \in set)

EndsWith(text, suffix) ==
    /\ Len(suffix) <= Len(text)
    /\ SubSeq(text, Len(text) - Len(suffix) + 1, Len(text)) = suffix

\* The changes of one type, in the order of the change list.
ChangesOfType(change_type) ==
    SelectSeq(changes, LAMBDA c : c.change_type = change_type)

\* The type and line number of every change, in order.
TypesAndLines(list) ==
    [k \in 1..Len(list) |-> <<list[k].change_type, list[k].line_number>>]

\* Marker counts by position: a '\r' immediately followed by '\n' is one
\* CRLF; every other '\n' is an LF and every other '\r' a CR.
CountOf(text, char) ==
    Cardinality({k \in 1..Len(text) : text[k] = char})

CRLFCount(text) ==
    Cardinality({k \in 1..(Len(text) - 1) :
                    text[k] = CARRIAGE_RETURN /\ text[k + 1] = LINE_FEED})

LFCount(text) == CountOf(text, LINE_FEED) - CRLFCount(text)

CRCount(text) == CountOf(text, CARRIAGE_RETURN) - CRLFCount(text)

\* The marker with the highest count; on equal counts LF wins over CRLF
\* and CRLF over CR.
DominantMarker(text) ==
    IF LFCount(text) >= CRLFCount(text) /\ LFCount(text) >= CRCount(text)
    THEN <<LINE_FEED>>
    ELSE IF CRLFCount(text) >= CRCount(text)
    THEN <<CARRIAGE_RETURN, LINE_FEED>>
    ELSE <<CARRIAGE_RETURN>>

\* The target marker the options ask for.
ExpectedTarget(text, args) ==
    CASE args.new_line_marker = "linux" -> <<LINE_FEED>>
      [] args.new_line_marker = "mac" -> <<CARRIAGE_RETURN>>
      [] args.new_line_marker = "windows" -> <<CARRIAGE_RETURN, LINE_FEED>>
      [] OTHER -> DominantMarker(text)

\* Segmentation of a text by position: position k ends a marker when it
\* holds '\n', or '\r' not followed by '\n'.
MarkerEndsAt(text, k) ==
    \/ text[k] = LINE_FEED
    \/ /\ text[k] = CARRIAGE_RETURN
       /\ ~(k < Len(text) /\ text[k + 1] = LINE_FEED)

MarkerEndingAt(text, k) ==
    IF text[k] = CARRIAGE_RETURN THEN <<CARRIAGE_RETURN>>
    ELSE IF k > 1 /\ text[k - 1] = CARRIAGE_RETURN
    THEN <<CARRIAGE_RETURN, LINE_FEED>>
    ELSE <<LINE_FEED>>

\* The markers that end at one of the first k positions, in order; the
\* n-th of them ends line n.
RECURSIVE MarkersUpTo(_, _)
MarkersUpTo(text, k) ==
    IF k = 0 THEN << >>
    ELSE MarkersUpTo(text, k - 1)
            \o (IF MarkerEndsAt(text, k)
                THEN <<MarkerEndingAt(text, k)>> ELSE << >>)

MarkersOf(text) == MarkersUpTo(text, Len(text))

\* One REPLACED_NEW_LINE_MARKER change for each of the first n markers that
\* differs from the target, at the number of the line the marker ends.
RECURSIVE ReplacementsUpTo(_, _, _)
ReplacementsUpTo(markers, n, target) ==
    IF n = 0 THEN << >>
    ELSE ReplacementsUpTo(markers, n - 1, target)
            \o (IF markers[n] # target
                THEN <<Change("REPLACED_NEW_LINE_MARKER", n,
                              markers[n], target)>>
                ELSE << >>)

\* The concatenation of the first n texts of a list.
RECURSIVE ConcatUpTo(_, _)
ConcatUpTo(list, n) ==
    IF n = 0 THEN << >> ELSE ConcatUpTo(list, n - 1) \o list[n]

\* ----------------------------------------------------------------------
\* Properties
\* ----------------------------------------------------------------------

\* C1: idempotence. Formatting the text returned by format_file_content
\* again, with the same options, returns an empty change list.
C1_SecondPassHasNoChanges ==
    (run > 1 /\ Returned) => changes = << >>

\* C2: with add_new_line_marker_at_end_of_file enabled (and the remove
\* option disabled) and an input that is not whitespace-only, the returned
\* text ends with an end-of-line marker.
C2_AddedMarkerEndsText ==
    (/\ Returned
     /\ parsed_arguments.add_new_line_marker_at_end_of_file
     /\ ~parsed_arguments.remove_new_line_marker_from_end_of_file
     /\ ~is_whitespace_only(file_content))
    => EndsWithMarker(output)

\* C3: with remove_trailing_whitespace as the only enabled transform and an
\* input that is not whitespace-only, the returned text is the input with
\* some space, tab, vertical-tab or form-feed characters deleted: every
\* '\r', every '\n' and every ordinary character of the input is kept.
C3_OnlyBlanksAreDeleted ==
    (/\ Returned
     /\ OnlyRemoveTrailingWhitespace(parsed_arguments)
     /\ ~is_whitespace_only(file_content))
    => /\ IsSubsequence(output, file_content)
       /\ Without(output, BlankCharacters)
            = Without(file_content, BlankCharacters)

\* C4: with remove_trailing_whitespace enabled and an input that is not
\* whitespace-only, whatever the other options are, no end-of-line marker
\* of the returned text is preceded by a space, tab, vertical tab or form
\* feed, and the returned text does not end with one of them.
C4_NoTrailingWhitespaceLeft ==
    (/\ Returned
     /\ parsed_arguments.remove_trailing_whitespace
     /\ ~is_whitespace_only(file_content))
    => NoTrailingWhitespace(output)

\* A call that removed trailing whitespace and kept a blank inside a line.
C4_Witness ==
    /\ Returned
    /\ parsed_arguments.remove_trailing_whitespace
    /\ ~is_whitespace_only(file_content)
    /\ HasChange("REMOVED_TRAILING_WHITESPACE")
    /\ \E k \in 1..Len(output) : output[k] \in BlankCharacters
    /\ \E k \in 1..Len(output) : output[k] \in MarkerCharacters

\* C5: find_most_common_new_line_marker counts a '\r' immediately followed
\* by '\n' as one CRLF, every other '\n' as LF and every other '\r' as CR,
\* and returns the marker with the highest count; on equal counts LF wins
\* over CRLF and CRLF over CR; a text without marker gives LF.
C5_MostCommonMarker ==
    (pc # "start" /\ parsed_arguments.new_line_marker = "auto")
    => /\ CountNewLineMarkers(file_content, 0,
              [linux_count |-> 0, mac_count |-> 0, windows_count |-> 0])
            = [linux_count |-> LFCount(file_content),
               mac_count |-> CRCount(file_content),
               windows_count |-> CRLFCount(file_content)]
       /\ output_new_line_marker = DominantMarker(file_content)

\* A tie between CRLF and CR, both above LF, resolved in favour of CRLF.
C5_Witness ==
    /\ Returned
    /\ parsed_arguments.new_line_marker = "auto"
    /\ CRLFCount(file_content) = CRCount(file_content)
    /\ CRCount(file_content) > LFCount(file_content)
    /\ output_new_line_marker = <<CARRIAGE_RETURN, LINE_FEED>>

\* C6: the target marker of every step of one call (marker replacement,
\* marker added at end of file, one-line file policies) is the dominant
\* marker of the input when new_line_marker is "auto", and '\n', '\r' or
\* '\r\n' for "linux", "mac" or "windows" whatever the input contains.
C6_TargetMarkerOfEveryStep ==
    pc # "start" =>
        LET target == ExpectedTarget(file_content, parsed_arguments)
        IN /\ output_new_line_marker = target
           /\ \A k \in 1..Len(changes) :
                changes[k].change_type = "REPLACED_NEW_LINE_MARKER"
                    => changes[k].changed_to = target
           /\ HasChange("ADDED_NEW_LINE_MARKER_TO_END_OF_FILE")
                => EndsWith(output, target)
           /\ (\/ HasChange("REPLACED_EMPTY_FILE_WITH_ONE_LINE")
               \/ HasChange("REPLACED_WHITESPACE_ONLY_FILE_WITH_ONE_LINE"))
                => output = target

\* A call with "auto" that replaced a marker and added one at the end of
\* the file, with a guessed target other than '\n'.
C6_Witness ==
    /\ Returned
    /\ parsed_arguments.new_line_marker = "auto"
    /\ HasChange("REPLACED_NEW_LINE_MARKER")
    /\ HasChange("ADDED_NEW_LINE_MARKER_TO_END_OF_FILE")
    /\ output_new_line_marker # <<LINE_FEED>>

\* C7: for the empty input the result depends only on
\* normalize_empty_files and the target marker: "ignore" and "empty" return
\* ("", []); "one-line" returns the target marker ('\n' with "auto") and
\* one REPLACED_EMPTY_FILE_WITH_ONE_LINE change at line 1; the scan is
\* never entered.
C7_EmptyFilePolicy ==
    file_content = EmptyText =>
        /\ pc \in {"start", "done"}
        /\ Returned =>
             IF parsed_arguments.normalize_empty_files = "one-line"
             THEN /\ output = ExpectedTarget(EmptyText, parsed_arguments)
                  /\ parsed_arguments.new_line_marker = "auto"
                        => output = <<LINE_FEED>>
                  /\ changes =
                        <<Change("REPLACED_EMPTY_FILE_WITH_ONE_LINE", 1,
                                 EmptyText, EmptyText)>>
             ELSE output = EmptyText /\ changes = << >>

\* The empty input with normalize_empty_files "empty" returned unchanged
\* although the whitespace-only policy is "one-line" and a marker is to be
\* added at the end of the file.
C7_Witness ==
    /\ Returned
    /\ file_content = EmptyText
    /\ parsed_arguments.normalize_empty_files = "empty"
    /\ parsed_arguments.normalize_whitespace_only_files = "one-line"
    /\ parsed_arguments.add_new_line_marker_at_end_of_file
    /\ output = EmptyText

\* C8: for a non-empty whitespace-only input the result depends only on
\* normalize_whitespace_only_files and the target marker: "ignore" returns
\* the input and no change; "empty" returns "" and one
\* REPLACED_WHITESPACE_ONLY_FILE_WITH_EMPTY_FILE change at line 1;
\* "one-line" returns the target marker and one
\* REPLACED_WHITESPACE_ONLY_FILE_WITH_ONE_LINE change at line 1, except
\* that an input equal to the target marker is returned with no change.
C8_WhitespaceOnlyFilePolicy ==
    (file_content # EmptyText /\ is_whitespace_only(file_content)) =>
        /\ pc \in {"start", "done"}
        /\ Returned =>
             LET policy == parsed_arguments.normalize_whitespace_only_files
                 target == ExpectedTarget(file_content, parsed_arguments)
             IN CASE policy = "ignore" ->
                        output = file_content /\ changes = << >>
                  [] policy = "empty" ->
                        /\ output = EmptyText
                        /\ changes =
                             <<Change(
                                "REPLACED_WHITESPACE_ONLY_FILE_WITH_EMPTY_FILE",
                                1, EmptyText, EmptyText)>>
                  [] policy = "one-line" ->
                        IF file_content = target
                        THEN output = file_content /\ changes = << >>
                        ELSE /\ output = target
                             /\ changes =
                                  <<Change(
                                    "REPLACED_WHITESPACE_ONLY_FILE_WITH_ONE_LINE",
                                    1, EmptyText, EmptyText)>>

\* The input "\r\n" with "auto" and "one-line", returned with no change
\* although trailing whitespace and trailing empty lines are to be removed.
C8_Witness ==
    /\ Returned
    /\ file_content = <<CARRIAGE_RETURN, LINE_FEED>>
    /\ parsed_arguments.new_line_marker = "auto"
    /\ parsed_arguments.normalize_whitespace_only_files = "one-line"
    /\ parsed_arguments.remove_trailing_whitespace
    /\ parsed_arguments.remove_trailing_empty_lines
    /\ output = file_content
    /\ changes = << >>

\* C9: for an input that is not whitespace-only, once the scan is over the
\* REPLACED_NEW_LINE_MARKER changes are, in order, one for each marker of
\* the input that differs from the target when normalize_new_line_markers
\* is enabled (from the original marker to the target, at the number of the
\* line the marker ends) and none when it is disabled; and the scan has
\* written the target for every marker when the option is enabled, and
\* every marker verbatim when it is disabled.
C9_MarkerReplacement ==
    (pc \notin {"start", "scan"} /\ ~is_whitespace_only(file_content)) =>
        LET markers == MarkersOf(file_content)
            target == ExpectedTarget(file_content, parsed_arguments)
            normalize == parsed_arguments.normalize_new_line_markers
            written == [k \in 1..Len(markers) |->
                            IF normalize THEN target ELSE markers[k]]
        IN /\ ChangesOfType("REPLACED_NEW_LINE_MARKER")
                = IF normalize
                  THEN ReplacementsUpTo(markers, Len(markers), target)
                  ELSE << >>
           /\ pc = "final_whitespace"
                => Only(output, MarkerCharacters)
                        = ConcatUpTo(written, Len(written))

\* The end of a scan that kept the marker of line 1 and replaced the
\* marker of line 2.
C9_Witness ==
    /\ pc = "final_whitespace"
    /\ ~is_whitespace_only(file_content)
    /\ parsed_arguments.normalize_new_line_markers
    /\ Len(MarkersOf(file_content)) = 2
    /\ TypesAndLines(ChangesOfType("REPLACED_NEW_LINE_MARKER"))
            = << <<"REPLACED_NEW_LINE_MARKER", 2>> >>

\* The text of the combined scenario, formatted.
ScenarioOutput ==
    <<SPACE, "h", "e", "l", "l", "o", LINE_FEED,
      SPACE, "w", "o", "r", "l", "d", LINE_FEED>>

\* C10 as stated: the combined scenario returns " hello\n world\n" and
\* nine changes, among them a marker-replaced change at line 2.
C10_ScenarioAsStated ==
    (file_content = ScenarioText /\ Returned) =>
        /\ output = ScenarioOutput
        /\ TypesAndLines(changes) =
             << <<"REPLACED_NONSTANDARD_WHITESPACE", 1>>,
                <<"REMOVED_TRAILING_WHITESPACE", 1>>,
                <<"REPLACED_NEW_LINE_MARKER", 1>>,
                <<"REPLACED_NONSTANDARD_WHITESPACE", 2>>,
                <<"REMOVED_TRAILING_WHITESPACE", 2>>,
                <<"REPLACED_NEW_LINE_MARKER", 2>>,
                <<"REPLACED_NEW_LINE_MARKER", 3>>,
                <<"REPLACED_NEW_LINE_MARKER", 4>>,
                <<"REMOVED_EMPTY_LINES", 3>> >>

\* C10, amended: the combined scenario returns " hello\n world\n" and the
\* eight changes nonstandard-whitespace-replaced@1,
\* trailing-whitespace-removed@1, marker-replaced@1,
\* nonstandard-whitespace-replaced@2, trailing-whitespace-removed@2,
\* marker-replaced@3, marker-replaced@4, trailing-empty-lines-removed@3:
\* the '\n' that ends line 2 already is the target and is not replaced.
C10_Scenario ==
    (file_content = ScenarioText /\ Returned) =>
        /\ output = ScenarioOutput
        /\ changes =
             <<Change("REPLACED_NONSTANDARD_WHITESPACE", 1,
                      <<VERTICAL_TAB>>, <<SPACE>>),
               Change("REMOVED_TRAILING_WHITESPACE", 1, EmptyText, EmptyText),
               Change("REPLACED_NEW_LINE_MARKER", 1,
                      <<CARRIAGE_RETURN, LINE_FEED>>, <<LINE_FEED>>),
               Change("REPLACED_NONSTANDARD_WHITESPACE", 2,
                      <<FORM_FEED>>, <<SPACE>>),
               Change("REMOVED_TRAILING_WHITESPACE", 2, EmptyText, EmptyText),
               Change("REPLACED_NEW_LINE_MARKER", 3,
                      <<CARRIAGE_RETURN, LINE_FEED>>, <<LINE_FEED>>),
               Change("REPLACED_NEW_LINE_MARKER", 4,
                      <<CARRIAGE_RETURN>>, <<LINE_FEED>>),
               Change("REMOVED_EMPTY_LINES", 3, EmptyText, EmptyText)>>

\* The combined scenario has returned.
C10_Witness ==
    /\ Returned
    /\ file_content = ScenarioText
    /\ parsed_arguments = ScenarioArguments
    /\ Len(changes) = 8

\* ----------------------------------------------------------------------
\* Tabs and non-standard whitespace
\* ----------------------------------------------------------------------

\* The scan loop has consumed the whole text and no final step has run.
ScanEnded == pc = "final_whitespace"

\* The number of the line that holds position k of the text.
LineOf(text, k) == 1 + Len(MarkersUpTo(text, k - 1))

\* n copies of a character.
Copies(char, n) == [k \in 1..n |-> char]

TabChangeTypes == {"REMOVED_TAB", "REPLACED_TAB_WITH_SPACES"}

\* The type and line of the change expected for each tab among the first
\* k positions, for tab width n.
RECURSIVE TabChangesUpTo(_, _, _)
TabChangesUpTo(text, k, n) ==
    IF k = 0 THEN << >>
    ELSE TabChangesUpTo(text, k - 1, n)
            \o (IF text[k] = TAB /\ n >= 0
                THEN << <<IF n = 0 THEN "REMOVED_TAB"
                          ELSE "REPLACED_TAB_WITH_SPACES",
                          LineOf(text, k)>> >>
                ELSE << >>)

\* The first k positions with every tab written as the options ask.
RECURSIVE TabsExpandedUpTo(_, _, _)
TabsExpandedUpTo(text, k, n) ==
    IF k = 0 THEN << >>
    ELSE TabsExpandedUpTo(text, k - 1, n)
            \o (IF text[k] = TAB /\ n >= 0
                THEN Copies(SPACE, n)
                ELSE <<text[k]>>)

\* The scan copies every character but the tabs.
OnlyTabsChangeInScan(args) ==
    /\ ~args.normalize_new_line_markers
    /\ ~args.remove_trailing_whitespace
    /\ args.normalize_non_standard_whitespace = "ignore"

\* C11: tab handling. For a text that is not whitespace-only, the change
\* list holds no tab change when replace_tabs_with_spaces is negative, one
\* REMOVED_TAB per tab at the tab's line when it is 0, and one
\* REPLACED_TAB_WITH_SPACES per tab at the tab's line when it is positive;
\* and the scan copies each tab, drops it, or writes it as exactly n spaces.
C11_TabHandling ==
    LET n == parsed_arguments.replace_tabs_with_spaces
    IN /\ (Returned /\ ~is_whitespace_only(file_content)) =>
             TypesAndLines(SelectSeq(changes,
                 LAMBDA c : c.change_type \in TabChangeTypes))
               = TabChangesUpTo(file_content, Len(file_content), n)
       /\ (ScanEnded /\ OnlyTabsChangeInScan(parsed_arguments)) =>
             output = TabsExpandedUpTo(file_content, Len(file_content), n)

C11_Witness ==
    /\ Returned
    /\ parsed_arguments.replace_tabs_with_spaces > 0
    /\ OnlyTabsChangeInScan(parsed_arguments)
    /\ \E k \in 1..Len(changes) :
          /\ changes[k].change_type = "REPLACED_TAB_WITH_SPACES"
          /\ changes[k].line_number = 2
    /\ \E k \in 1..(Len(output) - 1) :
          output[k] = SPACE /\ output[k + 1] = SPACE

\* C12: every REPLACED_TAB_WITH_SPACES change carries the tab as
\* changed_from and the n spaces written for it as changed_to.
C12_TabChangeCarriesTexts ==
    \A k \in 1..Len(changes) :
        changes[k].change_type = "REPLACED_TAB_WITH_SPACES" =>
            /\ changes[k].changed_from = <<TAB>>
            /\ changes[k].changed_to =
                  Copies(SPACE, parsed_arguments.replace_tabs_with_spaces)

NonStandardChangeTypes ==
    {"REMOVED_NONSTANDARD_WHITESPACE", "REPLACED_NONSTANDARD_WHITESPACE"}

\* The change expected for each '\v' and '\f' among the first k positions.
RECURSIVE NonStandardChangesUpTo(_, _, _)
NonStandardChangesUpTo(text, k, mode) ==
    IF k = 0 THEN << >>
    ELSE NonStandardChangesUpTo(text, k - 1, mode)
            \o (IF text[k] \in {VERTICAL_TAB, FORM_FEED} /\ mode # "ignore"
                THEN <<[change_type |->
                            IF mode = "replace"
                            THEN "REPLACED_NONSTANDARD_WHITESPACE"
                            ELSE "REMOVED_NONSTANDARD_WHITESPACE",
                        line_number |-> LineOf(text, k),
                        changed_from |-> <<text[k]>>,
                        changed_to |->
                            IF mode = "replace" THEN <<SPACE>> ELSE << >>]>>
                ELSE << >>)

\* The first k positions with every '\v' and '\f' written as the options
\* ask.
RECURSIVE NonStandardWrittenUpTo(_, _, _)
NonStandardWrittenUpTo(text, k, mode) ==
    IF k = 0 THEN << >>
    ELSE NonStandardWrittenUpTo(text, k - 1, mode)
            \o (IF text[k] \in {VERTICAL_TAB, FORM_FEED} /\ mode # "ignore"
                THEN IF mode = "replace" THEN <<SPACE>> ELSE << >>
                ELSE <<text[k]>>)

\* The scan copies every character but '\v' and '\f'.
OnlyNonStandardChangesInScan(args) ==
    /\ ~args.normalize_new_line_markers
    /\ ~args.remove_trailing_whitespace
    /\ args.replace_tabs_with_spaces < 0

\* C13: non-standard whitespace. For a text that is not whitespace-only,
\* 'ignore' records nothing for '\v' and '\f' and copies them; 'replace'
\* writes one space and records REPLACED_NONSTANDARD_WHITESPACE, 'remove'
\* writes nothing and records REMOVED_NONSTANDARD_WHITESPACE, each at the
\* line of the character, with the character as changed_from and the text
\* written as changed_to; no such change follows the
\* REMOVED_TRAILING_WHITESPACE change of its own line.
C13_NonStandardWhitespace ==
    LET mode == parsed_arguments.normalize_non_standard_whitespace
    IN /\ (Returned /\ ~is_whitespace_only(file_content)) =>
             /\ SelectSeq(changes,
                    LAMBDA c : c.change_type \in NonStandardChangeTypes)
                  = NonStandardChangesUpTo(file_content, Len(file_content),
                                           mode)
             /\ \A a, b \in 1..Len(changes) :
                   (/\ changes[a].change_type = "REMOVED_TRAILING_WHITESPACE"
                    /\ changes[b].change_type \in NonStandardChangeTypes
                    /\ changes[a].line_number = changes[b].line_number)
                   => b < a
       /\ (ScanEnded /\ OnlyNonStandardChangesInScan(parsed_arguments)) =>
             output = NonStandardWrittenUpTo(file_content,
                                             Len(file_content), mode)

C13_Witness ==
    /\ Returned
    /\ parsed_arguments.normalize_non_standard_whitespace = "replace"
    /\ \E a, b \in 1..Len(changes) :
          /\ a < b
          /\ changes[a].change_type = "REPLACED_NONSTANDARD_WHITESPACE"
          /\ changes[a].changed_from = <<VERTICAL_TAB>>
          /\ changes[a].changed_to = <<SPACE>>
          /\ changes[b].change_type = "REMOVED_TRAILING_WHITESPACE"
          /\ changes[b].line_number = changes[a].line_number

\* ----------------------------------------------------------------------
\* The end of the text
\* ----------------------------------------------------------------------

\* The character at position k is still on its line once the line has been
\* formatted: it is no part of a marker, the options do not delete it, and
\* it is no whitespace when trailing whitespace is removed.
StaysOnLine(text, k, args) ==
    /\ text[k] \notin MarkerCharacters
    /\ IF args.remove_trailing_whitespace
       THEN text[k] \notin WHITESPACE_CHARACTERS
       ELSE /\ ~(text[k] = TAB /\ args.replace_tabs_with_spaces = 0)
            /\ ~(/\ text[k] \in {VERTICAL_TAB, FORM_FEED}
                 /\ args.normalize_non_standard_whitespace = "remove")

\* The number of the last line that is not empty once formatted; 0 when
\* there is none.
RECURSIVE LastNonEmptyLineUpTo(_, _, _)
LastNonEmptyLineUpTo(text, k, args) ==
    IF k = 0 THEN 0
    ELSE IF StaysOnLine(text, k, args) THEN LineOf(text, k)
    ELSE LastNonEmptyLineUpTo(text, k - 1, args)

LastNonEmptyLine(text, args) == LastNonEmptyLineUpTo(text, Len(text), args)

\* The number of lines that end with a marker.
TerminatedLines(text) == Len(MarkersOf(text))

\* The text ends with a marker that terminates a line of length 0.
EndsWithEmptyLine(text) ==
    /\ EndsWithMarker(text)
    /\ LET start == Len(text) - Len(MarkerEndingAt(text, Len(text))) + 1
       IN start = 1 \/ text[start - 1] \in MarkerCharacters

\* C14: with remove_trailing_empty_lines and a text that is not
\* whitespace-only, the returned text never ends with an empty line; when
\* empty lines follow the last non-empty line, the returned text is cut
\* just after the marker of that line and exactly one REMOVED_EMPTY_LINES
\* change is recorded, at the number of that line plus one; otherwise none
\* is recorded.
C14_TrailingEmptyLines ==
    LET args == parsed_arguments
        last == LastNonEmptyLine(file_content, args)
        removed == ChangesOfType("REMOVED_EMPTY_LINES")
    IN (/\ Returned
        /\ args.remove_trailing_empty_lines
        /\ ~is_whitespace_only(file_content))
       => /\ ~EndsWithEmptyLine(output)
          /\ IF TerminatedLines(file_content) > last
             THEN /\ Len(removed) = 1
                  /\ removed[1].line_number = last + 1
                  /\ args.remove_new_line_marker_from_end_of_file
                     \/ EndsWithMarker(output)
             ELSE removed = << >>

\* C15: with remove_new_line_marker_from_end_of_file (and no
\* add_new_line_marker_at_end_of_file) and a text that is not
\* whitespace-only, the returned text never ends with '\r' or '\n'; when
\* the text ended with a marker, exactly one
\* REMOVED_NEW_LINE_MARKER_FROM_END_OF_FILE change is recorded, at the
\* number of the last non-empty line; otherwise none is recorded.
C15_NoMarkerAtEndOfFile ==
    LET args == parsed_arguments
        last == LastNonEmptyLine(file_content, args)
        removed == ChangesOfType("REMOVED_NEW_LINE_MARKER_FROM_END_OF_FILE")
    IN (/\ Returned
        /\ args.remove_new_line_marker_from_end_of_file
        /\ ~args.add_new_line_marker_at_end_of_file
        /\ ~is_whitespace_only(file_content))
       => /\ ~EndsWithMarker(output)
          /\ IF TerminatedLines(file_content) >= last
             THEN /\ Len(removed) = 1
                  /\ removed[1].line_number = last
             ELSE removed = << >>

\* Every transform but the two on the marker at the end of the file is
\* disabled.
OnlyEndOfFileMarker(args) ==
    /\ ~args.normalize_new_line_markers
    /\ ~args.remove_trailing_whitespace
    /\ ~args.remove_trailing_empty_lines
    /\ args.normalize_non_standard_whitespace = "ignore"
    /\ args.replace_tabs_with_spaces < 0

\* C16: a text that is not whitespace-only and does not end with '\r' or
\* '\n', every other transform disabled. With
\* remove_new_line_marker_from_end_of_file the text is returned unchanged
\* with an empty change list; with add_new_line_marker_at_end_of_file the
\* text is returned followed by the target marker, with exactly one change.
C16_TextWithoutFinalMarker ==
    LET args == parsed_arguments
    IN (/\ Returned
        /\ ~is_whitespace_only(file_content)
        /\ ~EndsWithMarker(file_content)
        /\ OnlyEndOfFileMarker(args))
       => /\ (/\ args.remove_new_line_marker_from_end_of_file
              /\ ~args.add_new_line_marker_at_end_of_file)
             => (output = file_content /\ changes = << >>)
          /\ (/\ args.add_new_line_marker_at_end_of_file
              /\ ~args.remove_new_line_marker_from_end_of_file)
             => /\ output =
                     file_content \o ExpectedTarget(file_content, args)
                /\ Len(changes) = 1
                /\ changes[1].change_type =
                     "ADDED_NEW_LINE_MARKER_TO_END_OF_FILE"

C16_Witness ==
    /\ Returned
    /\ OnlyEndOfFileMarker(parsed_arguments)
    /\ parsed_arguments.add_new_line_marker_at_end_of_file
    /\ parsed_arguments.new_line_marker = "windows"
    /\ ~EndsWithMarker(file_content)
    /\ \E k \in 1..Len(file_content) : file_content[k] = LINE_FEED
    /\ output = file_content \o <<CARRIAGE_RETURN, LINE_FEED>>
    /\ Len(changes) = 1

\* ----------------------------------------------------------------------
\* The command line and the batch
\* ----------------------------------------------------------------------

\* format_file_content has been entered and reformat_file has not yet acted
\* on what it returns.
InFormatFileContent ==
    pc \in {"start", "scan", "final_whitespace", "final_empty_lines",
            "final_add_marker", "final_remove_marker", "done"}

BothMarkerOptions(args) ==
    /\ args.add_new_line_marker_at_end_of_file
    /\ args.remove_new_line_marker_from_end_of_file

\* parse_command_line has returned its options.
OptionsReturned ==
    pc # "command_line" /\ ~BothMarkerOptions(parsed_arguments)

\* C17: mutual exclusivity. Options with both
\* add_new_line_marker_at_end_of_file and
\* remove_new_line_marker_from_end_of_file are rejected when they are
\* constructed: the process ends with an error status before any file is
\* read, and format_file_content is never entered with both set.
C17_BothMarkerOptionsRejected ==
    /\ InFormatFileContent => ~BothMarkerOptions(parsed_arguments)
    /\ (pc # "command_line" /\ BothMarkerOptions(parsed_arguments)) =>
          /\ pc = "exit"
          /\ exit_status # 0
          /\ file_name = 0

C17_Witness ==
    /\ pc = "exit"
    /\ BothMarkerOptions(parsed_arguments)
    /\ Len(parsed_arguments.input_files) > 0
    /\ file_name = 0
    /\ exit_status = 2

\* C18: in the options parse_command_line returns,
\* remove_new_line_marker_from_end_of_file implies
\* remove_trailing_empty_lines, and a formatting run under them records the
\* removal of the empty lines that follow the last non-empty line.
C18_RemoveMarkerImpliesRemoveEmptyLines ==
    LET args == parsed_arguments
    IN /\ (OptionsReturned /\ args.remove_new_line_marker_from_end_of_file)
             => args.remove_trailing_empty_lines
       /\ (/\ Returned
           /\ OptionsReturned
           /\ args.remove_new_line_marker_from_end_of_file
           /\ ~is_whitespace_only(file_content)
           /\ TerminatedLines(file_content)
                 > LastNonEmptyLine(file_content, args))
          => HasChange("REMOVED_EMPTY_LINES")

\* C19: in the options parse_command_line returns, a
\* normalize_whitespace_only_files other than 'ignore' overrides
\* normalize_empty_files, and the empty file is treated by the
\* whitespace-only policy: 'one-line' turns it into the target marker,
\* 'empty' leaves it empty.
C19_WhitespaceOnlyPolicyOverrides ==
    LET args == parsed_arguments
    IN /\ (/\ OptionsReturned
           /\ args.normalize_whitespace_only_files # "ignore")
          => args.normalize_empty_files
                = args.normalize_whitespace_only_files
       /\ (/\ Returned
           /\ OptionsReturned
           /\ file_content = EmptyText
           /\ args.normalize_whitespace_only_files # "ignore")
          => output = IF args.normalize_whitespace_only_files = "one-line"
                      THEN ExpectedTarget(file_content, args)
                      ELSE EmptyText

\* The process has ended after taking at least one file from the list.
ExitedInBatch == pc = "exit" /\ file_name >= 1

\* C20 as stated: a read, decode or write failure on one file does not
\* abort the batch; when the process ends, the last file of the list has
\* been taken.
C20_FailureDoesNotAbort ==
    ExitedInBatch => file_name = Len(file_names)

\* C20, amended: a read, decode or write failure on one file aborts the
\* batch. The process ends with status 2, 3 or 4 at the file that cannot
\* be read, decoded or written, whatever files follow it in the list; it
\* ends before the last file only in this way; a file that cannot be read
\* or decoded is never formatted; and the process ends with status 0 or 1
\* only when every file of the list has been taken.
C20_FailureAbortsBatch ==
    LET file == files[file_names[file_name]]
    IN /\ (InFormatFileContent /\ file_name >= 1) =>
             file.readable /\ file.decodable
       /\ (ExitedInBatch /\ file_name < Len(file_names)) =>
             exit_status \in {2, 3, 4}
       /\ (ExitedInBatch /\ exit_status = 2) => ~file.readable
       /\ (ExitedInBatch /\ exit_status = 3) =>
             file.readable /\ ~file.decodable
       /\ (ExitedInBatch /\ exit_status = 4) =>
             /\ ~file.writable
             /\ ~parsed_arguments.check_only
             /\ changes # << >>
       /\ (ExitedInBatch /\ exit_status \in {0, 1}) =>
             /\ file_name = Len(file_names)
             /\ \A k \in 1..Len(file_names) :
                   /\ files[file_names[k]].readable
                   /\ files[file_names[k]].decodable

C20_Witness ==
    /\ pc = "exit"
    /\ exit_status = 4
    /\ file_name = 1
    /\ Len(file_names) = 2
    /\ file_names[2] # file_names[1]
    /\ files[file_names[2]].readable
    /\ files[file_names[2]].decodable
    /\ files[file_names[2]].content # EmptyText

\* C21: reformat_file never writes a file in check-only mode; in write
\* mode it writes the formatted text to the file if and only if the change
\* list of the file is not empty (the process ends with a write error when
\* the file cannot be written); a file with no change keeps its content in
\* both modes.
C21_WritesOnlyChangedFilesInWriteMode ==
    [][/\ files' # files =>
             /\ pc = "done"
             /\ ~parsed_arguments.check_only
             /\ changes # << >>
             /\ files' = [files EXCEPT
                            ![file_names[file_name]].content = output]
       /\ (/\ pc = "done"
           /\ ~parsed_arguments.check_only
           /\ changes # << >>) =>
             \/ /\ pc' = "reformat_files"
                /\ files'[file_names[file_name]].content = output
             \/ /\ pc' = "exit"
                /\ exit_status' = 4
                /\ ~files[file_names[file_name]].writable
       /\ (pc = "done" /\ changes = << >>) =>
             pc' = "reformat_files" /\ files' = files
      ]_vars

C21_Witness ==
    /\ pc = "reformat_files"
    /\ file_name >= 1
    /\ ~parsed_arguments.check_only
    /\ changes # << >>
    /\ output # file_content
    /\ files[file_names[file_name]].content = output

\* C22 as stated: reformat_files ends the process with status 1 if and
\* only if check_only is on and at least one file has a change list that
\* is not empty.
C22_StatusOneIffChangesInCheckOnly ==
    ExitedInBatch =>
        (exit_status = 1
            <=> (parsed_arguments.check_only /\ num_changed_files > 0))

\* C22, amended: num_changed_files counts the files whose change list is
\* not empty; reformat_files ends the process with status 1 only in
\* check-only mode, with at least one such file and after the last file of
\* the list has been processed (before reformat_files is called, the
\* process ends with status 1 when find_files_to_process meets a directory
\* that cannot be listed); when no file fails to be read, decoded or written, it ends
\* after the last file, with status 1 in check-only mode with at least one
\* such file and with status 0 otherwise, in write mode however many files
\* changed.
C22_ExitStatusOfBatch ==
    [][/\ (exit_status' = 1 /\ exit_status # 1) =>
             \/ /\ pc = "find_files"
                /\ \E directory \in Directories : ~accessible[directory]
             \/ /\ pc = "reformat_files"
                /\ parsed_arguments.check_only
                /\ num_changed_files > 0
                /\ file_name = Len(file_names)
       /\ (/\ pc = "reformat_files"
           /\ pc' = "exit"
           /\ exit_status' \notin {2, 3, 4}) =>
             /\ file_name = Len(file_names)
             /\ exit_status' =
                   IF parsed_arguments.check_only /\ num_changed_files > 0
                   THEN 1 ELSE 0
       /\ num_changed_files' # num_changed_files =>
             /\ pc = "done"
             /\ changes # << >>
             /\ num_changed_files' = num_changed_files + 1
       /\ (pc = "done" /\ pc' = "reformat_files" /\ changes # << >>) =>
             num_changed_files' = num_changed_files + 1
      ]_vars

C22_Witness ==
    /\ pc = "exit"
    /\ exit_status = 1
    /\ parsed_arguments.check_only
    /\ Len(file_names) = 2
    /\ file_name = 2
    /\ num_changed_files = 1

\* ----------------------------------------------------------------------
\* The change list
\* ----------------------------------------------------------------------

\* C23: every change format_file_content returns has a line number of at
\* least 1 and at most the number of end-of-line markers of the input plus
\* one; the REMOVED_NEW_LINE_MARKER_FROM_END_OF_FILE change, whose number is
\* last_non_empty_line_number, is never recorded with line number 0.
C23_LineNumbersOfChanges ==
    Returned =>
        \A k \in 1..Len(changes) :
            /\ changes[k].line_number >= 1
            /\ changes[k].line_number <= TerminatedLines(file_content) + 1

C23_Witness ==
    /\ Returned
    /\ Len(file_content) > 0
    /\ file_content[1] = LINE_FEED
    /\ \E k \in 1..Len(changes) :
          /\ changes[k].change_type =
                "REMOVED_NEW_LINE_MARKER_FROM_END_OF_FILE"
          /\ changes[k].line_number = 2

ScanChangeTypes ==
    TabChangeTypes \cup NonStandardChangeTypes
        \cup {"REMOVED_TRAILING_WHITESPACE", "REPLACED_NEW_LINE_MARKER"}

\* The place of a change type among the steps after the scan; 0 for a type
\* that none of them records.
FinalRank(change_type) ==
    CASE change_type = "REMOVED_TRAILING_WHITESPACE" -> 1
      [] change_type = "REMOVED_EMPTY_LINES" -> 2
      [] change_type = "ADDED_NEW_LINE_MARKER_TO_END_OF_FILE" -> 3
      [] change_type = "REMOVED_NEW_LINE_MARKER_FROM_END_OF_FILE" -> 3
      [] OTHER -> 0

\* Changes of the scan: line numbers never decrease, and the
\* REPLACED_NEW_LINE_MARKER change of a line is the last change of the line.
InScanOrder(list) ==
    /\ \A k \in 1..Len(list) : list[k].change_type \in ScanChangeTypes
    /\ \A a, b \in 1..Len(list) :
          a < b =>
             /\ list[a].line_number <= list[b].line_number
             /\ list[a].change_type = "REPLACED_NEW_LINE_MARKER"
                   => list[a].line_number < list[b].line_number

\* Changes of the steps after the scan, at most one of each step, in the
\* order of the steps.
InFinalOrder(list) ==
    /\ \A k \in 1..Len(list) : FinalRank(list[k].change_type) > 0
    /\ \A a, b \in 1..Len(list) :
          a < b =>
             FinalRank(list[a].change_type) < FinalRank(list[b].change_type)

\* The list is made of changes of the scan followed by changes of the
\* steps after the scan.
InRecordingOrder(list) ==
    \E n \in 0..Len(list) :
        /\ InScanOrder(SubSeq(list, 1, n))
        /\ InFinalOrder(SubSeq(list, n + 1, Len(list)))

\* C25: order of the change list. For a text that is not whitespace-only,
\* the changes of the scan come first, in non-decreasing order of line
\* number and with the trailing-whitespace change of a line before its
\* marker-replaced change; the changes of the final steps follow, in the
\* order trailing whitespace, empty lines, marker added or removed; and a
\* step only appends to the list, it never modifies or removes a change
\* recorded before.
C25_OrderOfChanges ==
    [][/\ pc # "start" =>
             /\ Len(changes) <= Len(changes')
             /\ SubSeq(changes', 1, Len(changes)) = changes
       /\ (pc' = "done" /\ ~is_whitespace_only(file_content)) =>
             InRecordingOrder(changes')
      ]_vars

C25_Witness ==
    /\ Returned
    /\ \E a, b, c \in 1..Len(changes) :
          /\ a < b
          /\ b < c
          /\ changes[a].change_type = "REMOVED_TRAILING_WHITESPACE"
          /\ changes[b].change_type = "REPLACED_NEW_LINE_MARKER"
          /\ changes[a].line_number = changes[b].line_number
          /\ changes[c].change_type =
                "REMOVED_NEW_LINE_MARKER_FROM_END_OF_FILE"
          /\ changes[c].line_number <= changes[b].line_number

\* The text ends with a character that is no whitespace, or with such a
\* character and one marker after it.
EndsWithContent(text) ==
    LET body == IF EndsWithMarker(text)
                THEN Prefix(text, Len(text)
                                    - Len(MarkerEndingAt(text, Len(text))))
                ELSE text
    IN /\ Len(body) > 0
       /\ body[Len(body)] \notin WHITESPACE_CHARACTERS

\* The position at which the marker of line n ends; 0 for n = 0.
EndOfLine(text, n) ==
    IF n = 0 THEN 0
    ELSE CHOOSE k \in 1..Len(text) :
            MarkerEndsAt(text, k) /\ Len(MarkersUpTo(text, k)) = n

\* C24: emptiness of a line is decided after its trailing whitespace has
\* been removed. With remove_trailing_whitespace and
\* remove_trailing_empty_lines, the trailing lines that hold only
\* whitespace go with the trailing empty lines: the returned text ends
\* with a character that is no whitespace, followed by at most one marker.
\* With remove_trailing_empty_lines alone a line of whitespace counts as
\* non-empty: a text whose last line ends with a marker is cut just after
\* the marker of the last line that holds any character.
C24_EmptyAfterTrimming ==
    LET args == parsed_arguments
        last == LastNonEmptyLine(file_content, args)
    IN (/\ Returned
        /\ args.remove_trailing_empty_lines
        /\ ~is_whitespace_only(file_content))
       => /\ args.remove_trailing_whitespace => EndsWithContent(output)
          /\ (/\ ~args.remove_trailing_whitespace
              /\ ~args.add_new_line_marker_at_end_of_file
              /\ ~args.remove_new_line_marker_from_end_of_file
              /\ OnlyTabsChangeInScan(args)
              /\ args.replace_tabs_with_spaces < 0)
             => output =
                   IF TerminatedLines(file_content) >= last
                   THEN Prefix(file_content, EndOfLine(file_content, last))
                   ELSE file_content

\* "a\n \n" gives "a\n" with both options.
C24_Witness ==
    /\ Returned
    /\ parsed_arguments.remove_trailing_whitespace
    /\ parsed_arguments.remove_trailing_empty_lines
    /\ ~parsed_arguments.remove_new_line_marker_from_end_of_file
    /\ file_content = <<"a", LINE_FEED, SPACE, LINE_FEED>>
    /\ output = <<"a", LINE_FEED>>

\* The number of input characters one iteration of the scan consumes at
\* index k: 2 for "\r\n", 1 otherwise.
Consumed(text, k) ==
    IF /\ k + 2 <= Len(text)
       /\ text[k + 1] = CARRIAGE_RETURN
       /\ text[k + 2] = LINE_FEED
    THEN 2 ELSE 1

\* A change as format_file_content records it.
IsChange(change) ==
    /\ DOMAIN change = {"change_type", "line_number",
                        "changed_from", "changed_to"}
    /\ change.line_number \in Nat

\* C26: format_file_content is total. An iteration of the scan that
\* starts at index n ends with the index at n + 1, or at n + 2 when it
\* read "\r\n", and never beyond the length of the input; the scan ends
\* with the index equal to the length of the input; and every call
\* returns a text and a list of changes.
C26_Total ==
    /\ \A n \in 0..(MaxTotalLen + 1) :
          (pc = "scan" /\ i = n)
             ~> (/\ i = n + Consumed(file_content, n)
                 /\ i <= Len(file_content))
    /\ (pc = "scan")
          ~> (pc = "final_whitespace" /\ i = Len(file_content))
    /\ (pc = "start")
          ~> (/\ Returned
              /\ DOMAIN output = 1..Len(output)
              /\ \A k \in 1..Len(changes) : IsChange(changes[k]))

\* A call has returned after a scan that consumed a "\r\n" and a single
\* character.
C26_Witness ==
    /\ Returned
    /\ file_content = <<"a", CARRIAGE_RETURN, LINE_FEED>>
    /\ i = 3
    /\ Len(output) >= 2

\* C27: with add and remove marker at end of file not both set, the
\* returned list of changes is empty exactly when the returned text is
\* the text given.
C27_NoChangeIffSameText ==
    (Returned /\ MutuallyExclusive(parsed_arguments))
       => (changes = << >> <=> output = file_content)

\* A text the enabled options leave alone: no change, the same text.
C27_Witness ==
    /\ Returned
    /\ parsed_arguments.normalize_new_line_markers
    /\ parsed_arguments.new_line_marker = "linux"
    /\ parsed_arguments.remove_trailing_whitespace
    /\ file_content = <<"a", LINE_FEED>>
    /\ changes = << >>
    /\ output = file_content

\* C28: for a text that is not whitespace-only, and add and remove marker
\* at end of file not both set, the characters of the returned text that
\* are no whitespace are those of the text given, in the same order.
C28_ContentPreserved ==
    (/\ Returned
     /\ MutuallyExclusive(parsed_arguments)
     /\ ~is_whitespace_only(file_content))
       => Without(output, WHITESPACE_CHARACTERS)
             = Without(file_content, WHITESPACE_CHARACTERS)

\* Two different characters kept in their order while whitespace between
\* and after them was deleted.
C28_Witness ==
    /\ Returned
    /\ file_content = <<"b", TAB, "a">>
    /\ output = <<"b", "a">>
    /\ changes # << >>

\* The trackers of the scan are ordered and lie inside the text written.
TrackersInsideOutput ==
    /\ last_end_of_non_empty_line_excluding_eol_marker
          <= last_end_of_non_empty_line_including_eol_marker
    /\ last_end_of_non_empty_line_including_eol_marker
          <= last_end_of_line_including_eol_marker
    /\ last_end_of_line_including_eol_marker <= Len(output)

\* C29: at every step of the scan and where each final step makes its
\* test, last_end_of_non_empty_line_excluding_eol_marker <=
\* last_end_of_non_empty_line_including_eol_marker <=
\* last_end_of_line_including_eol_marker <= len(output).
C29_TrackerInvariant ==
    pc \in {"scan", "final_whitespace", "final_empty_lines",
            "final_add_marker", "final_remove_marker"}
       => TrackersInsideOutput

\* The first list is the beginning of the second.
IsPrefixOf(list, other) ==
    /\ Len(list) <= Len(other)
    /\ SubSeq(other, 1, Len(list)) = list

\* C30: with normalize_new_line_markers off and no marker added at the
\* end, the markers of the returned text are markers of the text given,
\* one for one from the first: no "\r" and "\n" that were two markers
\* of the text given stand together as one "\r\n" in the returned text.
C30_MarkersNotMerged ==
    (/\ Returned
     /\ ~parsed_arguments.normalize_new_line_markers
     /\ ~parsed_arguments.add_new_line_marker_at_end_of_file
     /\ ~is_whitespace_only(file_content))
       => IsPrefixOf(MarkersOf(output), MarkersOf(file_content))

=============================================================================
